---- MODULE Spec2Model ----
(***************************************************************************)
(* The deployment admission gate of src/core/server.ts: deploy_token       *)
(* (handleDeployToken), its duplicate check (checkTweetAlreadyTokenized,   *)
(* refreshDeployedTweetIds), the balance guard (handleGetWalletBalance)    *)
(* and the module-level gate state they share, together with the two       *)
(* read-only tools get_wallet_balance and can_deploy_now.                  *)
(*                                                                         *)
(* handleDeployToken is an async function.  Between two awaits on real I/O *)
(* (store query, RPC balance query, image generation, launch, store write) *)
(* its code runs to completion; at each such await other calls may run.    *)
(* Every action below is one such run-to-completion segment of one call.   *)
(* An await on an already settled promise (the return of an inner async    *)
(* function) is not an interleaving point.                                 *)
(*                                                                         *)
(* Units: time in milliseconds since StartTime - an offset standing for    *)
(* the epoch value of Date.now(); wallet balance in 0.01 SOL; the floating *)
(* point results of the balance guard in 0.001 SOL (see Available).        *)
(***************************************************************************)
EXTENDS Integers, Sequences, FiniteSets, TLC

\* ------------------------------------------------------------------ bounds
NumCalls == 2
MaxElapsed == 339500
NumPositions == 2
NumRequests == 2

\* ------------------------------------------------------- program constants
MIN_WALLET_RESERVE == 30
MIN_DEPLOYMENT_INTERVAL == 4 * 60 * 1000
TWEET_ID_CACHE_TTL == 5 * 60 * 1000
MIN_DEPLOY_AVAILABLE == 5
MIN_CONFIDENCE == 60
DEFAULT_CONFIDENCE == 70
DEFAULT_INITIAL_BUY == 5

\* ----------------------------------------------------------- input domains
NoUrl == <<>>
NoScore == -1
NoBuy == -1
Unset == -1
StartTime == 1000000
MaxNow == StartTime + MaxElapsed
TickSteps == {100000, 139500}

\* A tweet URL is a sequence of lexical pieces: "status/" is the literal
\* the regular expression looks for, "0".."9" are digits, anything else
\* is an ordinary piece.
Digits == {"1", "2", "3", "4"}
UrlX123  == <<"x.com/u/", "status/", "1", "2", "3">>
UrlX1234 == <<"x.com/u/", "status/", "1", "2", "3", "4">>
UrlBad   == <<"x.com/u/", "photo">>
UrlSet == {NoUrl, UrlX123, UrlX1234, UrlBad}
ScoreSet == {NoScore, 0, 59, 60}
BuySet == {NoBuy, 10}
BalanceSet == {32, 36, 45}

Calls == 1..NumCalls
Positions == 1..NumPositions
Requests == 1..NumRequests

\* What the market data give for a position: the value of the tokens held
\* plus the fees collected, in percent of the initial spend, and whether
\* there was no trade for 24 hours.
InitialSpend == 100
ValueSet == {69, 70, 120, 121, 149, 150, 151}

\* The thresholds of the exit policy, in percent ROI.
TAKE_PROFIT == 50
STOP_LOSS == 30
DEAD_TOKEN_FLOOR == 20

VARIABLES
    now,                      \* Date.now()
    lastDeploymentTime,       \* server.ts:116
    deployedTweetIds,         \* server.ts:119
    lastTweetIdCacheRefresh,  \* server.ts:120
    store,                    \* the 'deployments' collection
    storeUp,                  \* whether store operations succeed
    balance,                  \* the wallet, in 0.01 SOL
    keyConfigured,            \* AGENT_PRIVATE_KEY || PRIVATE_KEY is set
    call,                     \* the deploy_token calls, by position and locals
    query,                    \* the get_wallet_balance / can_deploy_now call
    position,                 \* the deployment records as the tracker sees them
    request                   \* the POST /mcp/tools/:toolName requests

vars == <<now, lastDeploymentTime, deployedTweetIds, lastTweetIdCacheRefresh,
          store, storeUp, balance, keyConfigured, call, query, position, request>>

\* ------------------------------------------------------------ pure helpers
NoId == <<>>

IsDigit(ch) == ch \in Digits

\* url.match(/status\/(\d+)/): leftmost "status/" followed by a digit, the
\* capture is the longest run of digits; null is NoId.
extractTweetId(url) ==
    LET starts == {i \in 1..(Len(url) - 1) : url[i] = "status/" /\ IsDigit(url[i + 1])}
    IN IF starts = {} THEN NoId
       ELSE LET i == CHOOSE s \in starts : \A t \in starts : s <= t
                j == CHOOSE e \in (i + 1)..Len(url) :
                        /\ \A k \in (i + 1)..e : IsDigit(url[k])
                        /\ (e = Len(url) \/ ~IsDigit(url[e + 1]))
            IN SubSeq(url, i + 1, j)

\* { 'metadata.tweet_url': { $regex: tweetId } }: an unanchored match, so
\* the id matches wherever its digits occur in the stored URL.
RegexMatches(url, tweetId) ==
    \E i \in 1..(Len(url) - Len(tweetId) + 1) :
           SubSeq(url, i, i + Len(tweetId) - 1) = tweetId

\* deploymentsCol.findOne({'metadata.tweet_url': {$regex: tweetId}}) # null
FindOneMatches(tweetId) == \E d \in store : RegexMatches(d.tweet_url, tweetId)

\* The ids refreshDeployedTweetIds collects from the documents that have a
\* tweet_url.
StoredTweetIds ==
    {extractTweetId(d.tweet_url) : d \in {e \in store : e.tweet_url # NoUrl}} \ {NoId}

\* args.confidence_score || 70
Confidence(score) == IF score = NoScore \/ score = 0 THEN DEFAULT_CONFIDENCE ELSE score

\* args.initial_buy_sol || 0.05
InitialBuy(buy) == IF buy = NoBuy \/ buy = 0 THEN DEFAULT_INITIAL_BUY ELSE buy

\* CeilSeconds with Math.floor in place of Math.ceil.
CeilSeconds_Floor(ms) == ms \div 1000

\* Math.ceil(x / 1000) for x >= 0
CeilSeconds(ms) == (ms + 999) \div 1000

\* Sign of the rounding error of the double (balance / 1e9 lamports) - 0.3
\* against the double nearest to the decimal result, for balances that are
\* whole multiples of 0.01 SOL up to 0.60 SOL.
RoundErr(bal) ==
    IF bal \in {35, 41, 47, 57, 58} THEN -1
    ELSE IF bal \in {31, 32, 33, 34, 38, 39, 40, 45, 46, 51, 52, 53, 54, 55, 56} THEN 1
    ELSE 0

\* A decimal amount of 0.01 SOL units as a value of the 0.001 SOL scale
\* on which doubles are compared.
Dbl(amount) == 10 * amount

\* Math.max(0, balanceSOL - MIN_WALLET_RESERVE) as a double: the decimal
\* result, one unit off where the subtraction rounds away from it.
Available(bal) ==
    IF bal <= MIN_WALLET_RESERVE THEN 0
    ELSE Dbl(bal - MIN_WALLET_RESERVE) + RoundErr(bal)

\* available >= 0.05
CanDeploy(bal) == Available(bal) >= Dbl(MIN_DEPLOY_AVAILABLE)

\* ------------------------------------------------------------- the state
\* A call that has not been made yet.  url, score and buy are the call's
\* arguments tweet_url, confidence_score and initial_buy_sol; each is drawn
\* by the segment that first reads it.
IdleCall ==
    [pc |-> "idle", url |-> NoUrl, score |-> NoScore, buy |-> NoBuy,
     snap |-> {}, waitSeconds |-> Unset,
     avail |-> Unset, error |-> "", launched |-> FALSE,
     existingToken |-> "", attempts |-> 0]

\* A record that does not exist yet.
NoPosition ==
    [outcome |-> "none", pc |-> "idle", current |-> 0, peak |-> 0,
     inactive |-> FALSE, profit |-> 0, sells |-> 0, lastCycle |-> "none"]

\* No tool request has been posted yet.
IdleRequest ==
    [pc |-> "idle", toolName |-> "", handler |-> "", coin |-> "none",
     enabled_actions |-> {}, treasury_wallet |-> FALSE,
     executor |-> "", status |-> 0, success |-> "none", error |-> ""]

\* No get_wallet_balance or can_deploy_now call has been made yet.  A call
\* that has returned keeps its result: thrown, or the fields of
\* WalletBalanceResult (balance_sol, available, can_deploy) or of
\* CanDeployResult (can_deploy, reasons, time_until).
IdleQuery ==
    [tool |-> "none", pc |-> "idle", thrown |-> FALSE, balance_sol |-> Unset,
     available |-> Unset, can_deploy |-> FALSE, reasons |-> {},
     waitSeconds |-> Unset, timeSinceLast |-> Unset, time_until |-> Unset]

Init ==
    /\ now = StartTime
    /\ lastDeploymentTime = 0
    /\ deployedTweetIds = {}
    /\ lastTweetIdCacheRefresh = 0
    /\ store = {}
    /\ storeUp = TRUE
    /\ balance \in BalanceSet
    /\ keyConfigured \in BOOLEAN
    /\ call = [c \in Calls |-> IdleCall]
    /\ query = IdleQuery
    /\ position = [p \in Positions |-> NoPosition]
    /\ request = [r \in Requests |-> IdleRequest]

\* The call has returned: its locals are gone.  What stays is its result
\* (error, waitSeconds, existingToken) and, as history, the trigger it
\* carried, how often launchToken returned to it and whether its launch went
\* through.
Return(rec, why) ==
    [rec EXCEPT !.pc = "done", !.error = why, !.score = NoScore, !.buy = NoBuy,
                !.avail = Unset, !.snap = {}]

\* The call returns {success: false, error} for a failed check; seen holds
\* the values the error message quotes (confidence, available, needed).
Reject(seen, why) == [seen EXCEPT !.pc = "done", !.error = why]

\* GateChecks without the check of the private key (server.ts:433-438).
GateChecks_NoKeyCheck(rec, score) ==
    LET timeSinceLastDeployment == now - lastDeploymentTime
    IN IF lastDeploymentTime > 0 /\ timeSinceLastDeployment < MIN_DEPLOYMENT_INTERVAL
       THEN [Return(rec, "too_soon") EXCEPT
               !.waitSeconds = CeilSeconds(MIN_DEPLOYMENT_INTERVAL - timeSinceLastDeployment)]
       ELSE IF Confidence(score) < MIN_CONFIDENCE
       THEN Reject([rec EXCEPT !.score = Confidence(score)], "confidence_low")
       ELSE [rec EXCEPT !.score = score, !.pc = "balance"]

\* handleDeployToken from safety check 1 up to the await of the balance
\* query: cooldown, confidence, private key.
GateChecks(rec, score) ==
    LET timeSinceLastDeployment == now - lastDeploymentTime
    IN IF lastDeploymentTime > 0 /\ timeSinceLastDeployment < MIN_DEPLOYMENT_INTERVAL
       THEN [Return(rec, "too_soon") EXCEPT
               !.waitSeconds = CeilSeconds(MIN_DEPLOYMENT_INTERVAL - timeSinceLastDeployment)]
       ELSE IF Confidence(score) < MIN_CONFIDENCE
       THEN Reject([rec EXCEPT !.score = Confidence(score)], "confidence_low")
       ELSE IF ~keyConfigured
       THEN Return(rec, "no_key")
       ELSE [rec EXCEPT !.score = score, !.pc = "balance"]

\* The call returns the duplicate rejection; token is what the message
\* quotes as existingToken: the stored name, or 'Unknown token'.
Duplicate(rec, token) == [Return(rec, "duplicate") EXCEPT !.existingToken = token]

\* checkTweetAlreadyTokenized after the staleness test: the quick check
\* against the cache chooses which findOne is awaited next.
CacheCheck(rec, ids) ==
    IF extractTweetId(rec.url) \in ids
    THEN [rec EXCEPT !.pc = "confirm_find"]
    ELSE [rec EXCEPT !.pc = "direct_find"]

\* BalanceChecks without the comparison of the available amount with the
\* requested initial buy (server.ts:452): only can_deploy decides.
BalanceChecks_NoBuyCheck(rec, bal, buy, openAIConfigured) ==
    IF ~CanDeploy(bal)
    THEN Reject([rec EXCEPT !.avail = Available(bal), !.score = NoScore],
                "insufficient_balance")
    ELSE [rec EXCEPT !.buy = InitialBuy(buy), !.score = NoScore,
                     !.pc = IF openAIConfigured THEN "image" ELSE "launch"]

\* The balance checks of safety check 3 and what follows up to the next
\* await, given the balance the RPC returned and what isOpenAIConfigured()
\* reads from the environment in this call.
BalanceChecks(rec, bal, buy, openAIConfigured) ==
    LET initialBuy == InitialBuy(buy)
        seen == [rec EXCEPT !.avail = Available(bal), !.score = NoScore]
    IN IF ~CanDeploy(bal)
       THEN Reject(seen, "insufficient_balance")
       ELSE IF Available(bal) < Dbl(initialBuy)
       THEN Reject([seen EXCEPT !.buy = initialBuy], "not_enough_available")
       ELSE [rec EXCEPT !.buy = initialBuy, !.score = NoScore,
                        !.pc = IF openAIConfigured THEN "image" ELSE "launch"]

\* summaryManager.recordDeployment(deploymentRecord): appends the record
\* to the store.
recordDeployment(c, rec) == store \cup {[mint |-> c, tweet_url |-> rec.url]}

\* ------------------------------------------------------------ the actions
Others == <<storeUp, balance, keyConfigured, query, position, request>>

\* Start without the early return of checkTweetAlreadyTokenized for a URL
\* that yields no tweet id (server.ts:166).
Start_NoIdCheck(c) ==
    /\ call[c].pc = "idle"
    /\ \A d \in Calls : d < c => call[d].pc # "idle"
    /\ \E url \in UrlSet, score \in ScoreSet :
         LET rec == [call[c] EXCEPT !.url = url]
         IN \/ /\ url = NoUrl
               /\ call' = [call EXCEPT ![c] = GateChecks(rec, score)]
            \/ /\ url # NoUrl
               /\ call' = [call EXCEPT ![c] =
                    IF now - lastTweetIdCacheRefresh > TWEET_ID_CACHE_TTL
                    THEN [rec EXCEPT !.pc = "refresh_find"]
                    ELSE CacheCheck(rec, deployedTweetIds)]
    /\ UNCHANGED <<now, lastDeploymentTime, deployedTweetIds,
                   lastTweetIdCacheRefresh, store, Others>>

\* A deploy_token call arrives and runs to its first await.
Start(c) ==
    /\ call[c].pc = "idle"
    /\ \A d \in Calls : d < c => call[d].pc # "idle"
    /\ \E url \in UrlSet, score \in ScoreSet :
         LET rec == [call[c] EXCEPT !.url = url]
         IN \/ /\ (url = NoUrl \/ extractTweetId(url) = NoId)
               /\ call' = [call EXCEPT ![c] = GateChecks(rec, score)]
            \/ /\ url # NoUrl /\ extractTweetId(url) # NoId
               /\ call' = [call EXCEPT ![c] =
                    IF now - lastTweetIdCacheRefresh > TWEET_ID_CACHE_TTL
                    THEN [rec EXCEPT !.pc = "refresh_find"]
                    ELSE CacheCheck(rec, deployedTweetIds)]
    /\ UNCHANGED <<now, lastDeploymentTime, deployedTweetIds,
                   lastTweetIdCacheRefresh, store, Others>>

\* refreshDeployedTweetIds: the store answers find(...).toArray(), or the
\* query fails and the function returns with the cache as it was.
RefreshQuery(c) ==
    /\ call[c].pc = "refresh_find"
    /\ call' = [call EXCEPT ![c] =
          IF storeUp
          THEN [call[c] EXCEPT !.pc = "refresh_apply", !.snap = StoredTweetIds]
          ELSE CacheCheck(call[c], deployedTweetIds)]
    /\ UNCHANGED <<now, lastDeploymentTime, deployedTweetIds,
                   lastTweetIdCacheRefresh, store, Others>>

\* RefreshApply without lastTweetIdCacheRefresh = Date.now() (server.ts:154).
RefreshApply_NoStamp(c) ==
    /\ call[c].pc = "refresh_apply"
    /\ deployedTweetIds' = call[c].snap
    /\ call' = [call EXCEPT ![c] = CacheCheck([call[c] EXCEPT !.snap = {}], call[c].snap)]
    /\ UNCHANGED <<now, lastDeploymentTime, lastTweetIdCacheRefresh, store, Others>>

\* refreshDeployedTweetIds after the await: the set is rebuilt from the
\* documents received, then the caller goes on to the cache check.
RefreshApply(c) ==
    /\ call[c].pc = "refresh_apply"
    /\ deployedTweetIds' = call[c].snap
    /\ lastTweetIdCacheRefresh' = now
    /\ call' = [call EXCEPT ![c] = CacheCheck([call[c] EXCEPT !.snap = {}], call[c].snap)]
    /\ UNCHANGED <<now, lastDeploymentTime, store, Others>>

\* ConfirmFind without the catch block of server.ts:190-193: a failing
\* findOne leaves checkTweetAlreadyTokenized and handleDeployToken.
ConfirmFind_NoCatch(c) ==
    /\ call[c].pc = "confirm_find"
    /\ call' = [call EXCEPT ![c] =
          IF ~storeUp
          THEN Return(call[c], "thrown")
          ELSE IF FindOneMatches(extractTweetId(call[c].url))
          THEN Duplicate(call[c], "name")
          ELSE [call[c] EXCEPT !.pc = "direct_find"]]
    /\ UNCHANGED <<now, lastDeploymentTime, deployedTweetIds,
                   lastTweetIdCacheRefresh, store, Others>>

\* The findOne that confirms a cache hit: a hit or a failing query returns
\* the duplicate rejection, no document sends the call to the direct check.
ConfirmFind(c) ==
    /\ call[c].pc = "confirm_find"
    /\ call' = [call EXCEPT ![c] =
          IF ~storeUp
          THEN Duplicate(call[c], "Unknown token")
          ELSE IF FindOneMatches(extractTweetId(call[c].url))
          THEN Duplicate(call[c], "name")
          ELSE [call[c] EXCEPT !.pc = "direct_find"]]
    /\ UNCHANGED <<now, lastDeploymentTime, deployedTweetIds,
                   lastTweetIdCacheRefresh, store, Others>>

\* DirectFind without deployedTweetIds.add(tweetId) on a store hit
\* (server.ts:205).
DirectFind_NoInsert(c) ==
    /\ call[c].pc = "direct_find"
    /\ LET tweetId == extractTweetId(call[c].url)
           hit == storeUp /\ FindOneMatches(tweetId)
       IN \/ /\ hit
             /\ call' = [call EXCEPT ![c] = Duplicate(call[c], "name")]
          \/ /\ ~hit
             /\ \E score \in ScoreSet :
                   call' = [call EXCEPT ![c] = GateChecks(call[c], score)]
    /\ UNCHANGED <<now, lastDeploymentTime, deployedTweetIds,
                   lastTweetIdCacheRefresh, store, Others>>

\* The findOne that double-checks the store; without a hit the call goes
\* on through the gate checks.
DirectFind(c) ==
    /\ call[c].pc = "direct_find"
    /\ LET tweetId == extractTweetId(call[c].url)
           hit == storeUp /\ FindOneMatches(tweetId)
       IN \/ /\ hit
             /\ deployedTweetIds' = deployedTweetIds \cup {tweetId}
             /\ call' = [call EXCEPT ![c] = Duplicate(call[c], "name")]
          \/ /\ ~hit
             /\ deployedTweetIds' = deployedTweetIds
             /\ \E score \in ScoreSet :
                   call' = [call EXCEPT ![c] = GateChecks(call[c], score)]
    /\ UNCHANGED <<now, lastDeploymentTime, lastTweetIdCacheRefresh, store, Others>>

\* handleGetWalletBalance answers, or connection.getBalance rejects and
\* the rejection leaves handleDeployToken (the await is outside its try).
Balance(c) ==
    /\ call[c].pc = "balance"
    /\ \/ \E buy \in BuySet, openAIConfigured \in BOOLEAN :
            call' = [call EXCEPT ![c] = BalanceChecks(call[c], balance, buy, openAIConfigured)]
       \/ call' = [call EXCEPT ![c] = Return(call[c], "thrown")]
    /\ UNCHANGED <<now, lastDeploymentTime, deployedTweetIds,
                   lastTweetIdCacheRefresh, store, Others>>

\* generateTokenImage returns a URL or throws into the catch block.
Image(c) ==
    /\ call[c].pc = "image"
    /\ \/ call' = [call EXCEPT ![c] = [call[c] EXCEPT !.pc = "launch"]]
       \/ call' = [call EXCEPT ![c] = Return(call[c], "exception")]
    /\ UNCHANGED <<now, lastDeploymentTime, deployedTweetIds,
                   lastTweetIdCacheRefresh, store, Others>>

\* Launch with a second invocation of launchToken after one that returned
\* {error}.
Launch_Retry(c) ==
    /\ call[c].pc = "launch"
    /\ \/ /\ balance >= call[c].buy
          /\ balance' = balance - call[c].buy
          /\ call' = [call EXCEPT ![c] =
                [call[c] EXCEPT !.pc = "record", !.launched = TRUE,
                                !.attempts = call[c].attempts + 1]]
       \/ /\ balance' = balance
          /\ call[c].attempts = 0
          /\ call' = [call EXCEPT ![c] = [call[c] EXCEPT !.attempts = 1]]
       \/ /\ balance' = balance
          /\ call[c].attempts > 0
          /\ call' = [call EXCEPT ![c] =
                Return([call[c] EXCEPT !.attempts = call[c].attempts + 1], "launch_error")]
    /\ UNCHANGED <<now, lastDeploymentTime, deployedTweetIds,
                   lastTweetIdCacheRefresh, store, storeUp, keyConfigured, query,
                   position, request>>

\* launchToken returns: the transaction went through and the initial buy
\* left the wallet, or it returns {error}.  launchToken catches whatever is
\* thrown inside it (pumpportal.ts:370-388).
Launch(c) ==
    /\ call[c].pc = "launch"
    /\ \/ /\ balance >= call[c].buy
          /\ balance' = balance - call[c].buy
          /\ call' = [call EXCEPT ![c] =
                [call[c] EXCEPT !.pc = "record", !.launched = TRUE,
                                !.attempts = call[c].attempts + 1]]
       \/ /\ balance' = balance
          /\ call' = [call EXCEPT ![c] =
                Return([call[c] EXCEPT !.attempts = call[c].attempts + 1], "launch_error")]
    /\ UNCHANGED <<now, lastDeploymentTime, deployedTweetIds,
                   lastTweetIdCacheRefresh, store, storeUp, keyConfigured, query,
                   position, request>>

\* Record that stamps the deployment time although the record was not saved.
Record_StampOnFailure(c) ==
    /\ call[c].pc = "record"
    /\ \/ /\ storeUp
          /\ store' = recordDeployment(c, call[c])
          /\ lastDeploymentTime' = now
          /\ call' = [call EXCEPT ![c] = Return(call[c], "ok")]
       \/ /\ ~storeUp
          /\ store' = store
          /\ lastDeploymentTime' = now
          /\ call' = [call EXCEPT ![c] = Return(call[c], "exception")]
    /\ UNCHANGED <<now, deployedTweetIds, lastTweetIdCacheRefresh, Others>>

\* recordDeployment returns and the call ends with success, or it throws
\* into the catch block.
Record(c) ==
    /\ call[c].pc = "record"
    /\ \/ /\ storeUp
          /\ store' = recordDeployment(c, call[c])
          /\ lastDeploymentTime' = now
          /\ call' = [call EXCEPT ![c] = Return(call[c], "ok")]
       \/ /\ ~storeUp
          /\ store' = store
          /\ lastDeploymentTime' = lastDeploymentTime
          /\ call' = [call EXCEPT ![c] = Return(call[c], "exception")]
    /\ UNCHANGED <<now, deployedTweetIds, lastTweetIdCacheRefresh, Others>>

\* Time passes between two segments.
Tick ==
    /\ \E d \in TickSteps : now + d <= MaxNow /\ now' = now + d
    /\ UNCHANGED <<lastDeploymentTime, deployedTweetIds, lastTweetIdCacheRefresh,
                   store, Others, call>>

\* Calls made one after another: a call arrives only when no other call is
\* in flight.
StartSeq(c) ==
    /\ \A d \in Calls : call[d].pc \in {"idle", "done"}
    /\ Start(c)

\* A call without tweet_url, made when no other deploy_token call is in
\* flight: the duplicate check is skipped.
StartPlain(c) ==
    /\ StartSeq(c)
    /\ call'[c].url = NoUrl

\* The store becomes unreachable, or reachable again.
StoreFlip ==
    /\ storeUp' = ~storeUp
    /\ UNCHANGED <<now, lastDeploymentTime, deployedTweetIds, lastTweetIdCacheRefresh,
                   store, balance, keyConfigured, call, query, position, request>>

\* ------------------------------------------------- the read-only tools
QueryFrame == <<now, lastDeploymentTime, deployedTweetIds, lastTweetIdCacheRefresh,
                store, storeUp, balance, keyConfigured, call, position, request>>

\* get_wallet_balance is called: handleGetWalletBalance throws at once
\* without a key, otherwise it awaits connection.getBalance.
GetWalletBalance ==
    /\ query.pc \in {"idle", "done"}
    /\ query' = IF ~keyConfigured
                THEN [IdleQuery EXCEPT !.tool = "get_wallet_balance",
                                       !.pc = "done", !.thrown = TRUE]
                ELSE [IdleQuery EXCEPT !.tool = "get_wallet_balance", !.pc = "balance"]
    /\ UNCHANGED QueryFrame

\* connection.getBalance answers and the WalletBalanceResult is returned,
\* or it rejects and handleGetWalletBalance throws.
GetWalletBalanceAnswer ==
    /\ query.pc = "balance" /\ query.tool = "get_wallet_balance"
    /\ \/ query' = [query EXCEPT !.pc = "done", !.balance_sol = balance,
                                 !.available = Available(balance),
                                 !.can_deploy = CanDeploy(balance)]
       \/ query' = [query EXCEPT !.pc = "done", !.thrown = TRUE]
    /\ UNCHANGED QueryFrame

\* get_rolling_summary or get_recent_deployments is called: the handler
\* awaits the summary manager.
GetSummary(tool) ==
    /\ query.pc \in {"idle", "done"}
    /\ query' = [IdleQuery EXCEPT !.tool = tool, !.pc = "summary"]
    /\ UNCHANGED QueryFrame

\* The summary manager answers from the store, or throws when the store
\* cannot be reached.
GetSummaryAnswer ==
    /\ query.pc = "summary"
    /\ query' = [query EXCEPT !.pc = "done", !.thrown = ~storeUp]
    /\ UNCHANGED QueryFrame

\* handleCanDeployNow, "Check time since last deployment".
CooldownReport(q) ==
    LET timeSinceLast == now - lastDeploymentTime
    IN IF lastDeploymentTime > 0 /\ timeSinceLast < MIN_DEPLOYMENT_INTERVAL
       THEN [q EXCEPT !.can_deploy = FALSE, !.reasons = {"Must wait"},
                      !.waitSeconds = CeilSeconds(MIN_DEPLOYMENT_INTERVAL - timeSinceLast),
                      !.timeSinceLast = timeSinceLast]
       ELSE [q EXCEPT !.can_deploy = TRUE, !.timeSinceLast = timeSinceLast]

\* BalanceReport that only asks whether the balance query answered, not
\* whether it answered can_deploy.
BalanceReport_NoFloor(q, answered, bal) ==
    IF ~answered
    THEN [q EXCEPT !.can_deploy = FALSE,
                   !.reasons = q.reasons \cup {"Failed to check wallet balance"}]
    ELSE q

\* handleCanDeployNow, "Check wallet balance": handleGetWalletBalance
\* answered for balance bal, or it threw and the catch block ran.
BalanceReport(q, answered, bal) ==
    IF ~answered
    THEN [q EXCEPT !.can_deploy = FALSE,
                   !.reasons = q.reasons \cup {"Failed to check wallet balance"}]
    ELSE IF ~CanDeploy(bal)
    THEN [q EXCEPT !.can_deploy = FALSE, !.balance_sol = bal,
                   !.reasons = q.reasons \cup {"Insufficient balance"}]
    ELSE q

\* KeyReport without the check of the private key.
KeyReport_Absent(q) == q

\* handleCanDeployNow, "Check API keys": the private key.
KeyReport(q) ==
    IF ~keyConfigured
    THEN [q EXCEPT !.can_deploy = FALSE,
                   !.reasons = q.reasons \cup {"AGENT_PRIVATE_KEY not configured"}]
    ELSE q

\* handleCanDeployNow from the OpenAI note to its return.
CanDeployResult(q, openAIConfigured) ==
    LET noted == IF openAIConfigured THEN q.reasons
                 ELSE q.reasons \cup {"OpenAI not configured"}
        final == IF q.can_deploy /\ noted = {} THEN {"All checks passed"} ELSE noted
        remaining == CeilSeconds(MIN_DEPLOYMENT_INTERVAL - q.timeSinceLast)
    IN [q EXCEPT !.pc = "done", !.reasons = final, !.timeSinceLast = Unset,
                 !.time_until = IF lastDeploymentTime > 0
                                THEN (IF remaining > 0 THEN remaining ELSE 0)
                                ELSE 0]

\* can_deploy_now is called and runs to its await of the balance query;
\* without a key handleGetWalletBalance throws at once and the call runs
\* to its end.
CanDeployNow ==
    /\ query.pc \in {"idle", "done"}
    /\ LET q == CooldownReport([IdleQuery EXCEPT !.tool = "can_deploy_now"])
       IN IF keyConfigured
          THEN query' = [q EXCEPT !.pc = "balance"]
          ELSE \E openAIConfigured \in BOOLEAN :
                  query' = CanDeployResult(KeyReport(BalanceReport(q, FALSE, balance)),
                                           openAIConfigured)
    /\ UNCHANGED QueryFrame

\* The balance query of can_deploy_now answers or fails, and the call runs
\* to its end.
CanDeployNowAnswer ==
    /\ query.pc = "balance" /\ query.tool = "can_deploy_now"
    /\ \E answered, openAIConfigured \in BOOLEAN :
          query' = CanDeployResult(KeyReport(BalanceReport(query, answered, balance)),
                                   openAIConfigured)
    /\ UNCHANGED QueryFrame

\* ------------------------------------------------ the position tracker
TrackerFrame == <<now, lastDeploymentTime, deployedTweetIds, lastTweetIdCacheRefresh,
                  store, storeUp, balance, keyConfigured, call, query, request>>

\* ROI = (current value held + fees collected - initial spend) / initial
\* spend, in percent; value is value held plus fees.
ROI(value) == ((value - InitialSpend) * 100) \div InitialSpend

\* ExitPolicy with the thresholds themselves selling.
ExitPolicy_Inclusive(roi, inactive) ==
    IF roi >= TAKE_PROFIT THEN "sell"
    ELSE IF roi <= -STOP_LOSS THEN "sell"
    ELSE IF inactive /\ roi > DEAD_TOKEN_FLOOR THEN "sell"
    ELSE "hold"

\* The exit policy: take profits, cut losses, exit a dead token; in every
\* other case hold.
ExitPolicy(roi, inactive) ==
    IF roi > TAKE_PROFIT THEN "sell"
    ELSE IF roi < -STOP_LOSS THEN "sell"
    ELSE IF inactive /\ roi > DEAD_TOKEN_FLOOR THEN "sell"
    ELSE "hold"

\* SoldOutcome that books every sold position as profitable.
SoldOutcome_Profitable(roi) == "profitable"

\* The outcome a sold position gets.
SoldOutcome(roi) == IF roi > 0 THEN "profitable" ELSE "loss"

\* A deployment is recorded: its performance starts at zero with outcome
\* active (the deploymentRecord of handleDeployToken).
TrackOpen(p) ==
    /\ position[p].outcome = "none"
    /\ \A q \in Positions : q < p => position[q].outcome # "none"
    /\ position' = [position EXCEPT ![p] = [NoPosition EXCEPT !.outcome = "active"]]
    /\ UNCHANGED TrackerFrame

\* One tracker cycle looks at an active position: the market data fetch
\* fails and the position is skipped for this cycle, or the ROI is computed
\* and the exit policy asked; on hold the current and peak values are
\* updated, on sell the sell is delegated to the executor.
TrackEvaluate(p) ==
    /\ position[p].outcome = "active" /\ position[p].pc = "idle"
    /\ \/ position' = [position EXCEPT ![p].lastCycle = "skipped"]
       \/ \E value \in ValueSet, inactive \in BOOLEAN :
            position' = [position EXCEPT ![p] =
               IF ExitPolicy(ROI(value), inactive) = "sell"
               THEN [position[p] EXCEPT !.pc = "selling", !.current = value,
                                        !.inactive = inactive]
               ELSE [position[p] EXCEPT !.current = value, !.inactive = inactive,
                        !.peak = IF value > position[p].peak THEN value
                                 ELSE position[p].peak,
                        !.lastCycle = "held"]]
    /\ UNCHANGED TrackerFrame

\* The executor returns from the sell: the outcome and the realized
\* performance are written, or the sell failed and the cycle leaves the
\* position as it was.
TrackSold(p) ==
    /\ position[p].pc = "selling"
    /\ \/ position' = [position EXCEPT ![p] =
              [position[p] EXCEPT !.pc = "idle",
                  !.outcome = SoldOutcome(ROI(position[p].current)),
                  !.profit = position[p].current - InitialSpend,
                  !.peak = IF position[p].current > position[p].peak
                           THEN position[p].current ELSE position[p].peak,
                  !.sells = position[p].sells + 1,
                  !.lastCycle = "sold"]]
       \/ position' = [position EXCEPT ![p] =
              [position[p] EXCEPT !.pc = "idle", !.lastCycle = "sell_failed"]]
    /\ UNCHANGED TrackerFrame

NextTracker ==
    \/ \E p \in Positions : TrackOpen(p)
    \/ \E p \in Positions : TrackEvaluate(p)
    \/ \E p \in Positions : TrackSold(p)

TrackerSpec == Init /\ [][NextTracker]_vars

\* ------------------------------------------------ the MCP tool router
ToolFrame == <<now, lastDeploymentTime, deployedTweetIds, lastTweetIdCacheRefresh,
               store, storeUp, balance, keyConfigured, call, query, position>>

COIN_TOOLS ==
    <<"get_coin_state", "buyback", "burn_tokens", "airdrop_sol", "airdrop_tokens",
      "send_sol_to_treasury", "send_tokens_to_treasury">>

RESEARCH_TOOLS ==
    <<"scan_market_meta", "find_twitter_opportunities", "analyze_token_patterns",
      "find_all_opportunities">>

DEPLOYMENT_TOOLS ==
    <<"get_rolling_summary", "get_wallet_balance", "deploy_token",
      "get_recent_deployments", "can_deploy_now">>

TWITTER_TOOLS == <<"search_twitter_custom", "search_twitter_fresh", "get_tweet_details">>

MCP_TOOLS == COIN_TOOLS \o RESEARCH_TOOLS \o DEPLOYMENT_TOOLS \o TWITTER_TOOLS

\* MCP_TOOLS.find(t => t.name === toolName)
FindTool(toolName) == \E i \in DOMAIN MCP_TOOLS : MCP_TOOLS[i] = toolName

\* The names a request may carry: the listed ones, the name of the executor
\* that has no tool, and a name nobody knows.
ToolNameSet ==
    {MCP_TOOLS[i] : i \in DOMAIN MCP_TOOLS} \cup {"claim_fees", "sell_position"}

\* The flags of coin.enabled_actions and the coins a findOne may return.
Flags == {"buyback", "burn", "airdrop_sol", "airdrop_tokens", "treasury_sol",
          "treasury_tokens"}
EnabledSet == {{}, Flags, Flags \ {"treasury_sol"}, {"burn", "treasury_tokens"}}

executeResearchToolCall(toolName) ==
    CASE toolName = "scan_market_meta" -> "handleScanMarketMeta"
      [] toolName = "find_twitter_opportunities" -> "handleFindTwitterOpportunities"
      [] toolName = "analyze_token_patterns" -> "handleAnalyzeTokenPatterns"
      [] toolName = "find_all_opportunities" -> "handleFindAllOpportunities"
      [] OTHER -> "Unknown research tool"

executeDeploymentToolCall(toolName) ==
    CASE toolName = "get_rolling_summary" -> "handleGetRollingSummary"
      [] toolName = "get_wallet_balance" -> "handleGetWalletBalance"
      [] toolName = "deploy_token" -> "handleDeployToken"
      [] toolName = "get_recent_deployments" -> "handleGetRecentDeployments"
      [] toolName = "can_deploy_now" -> "handleCanDeployNow"
      [] OTHER -> "Unknown deployment tool"

executeTwitterToolCall(toolName) ==
    CASE toolName = "search_twitter_custom" -> "handleSearchTwitterCustom"
      [] toolName = "search_twitter_fresh" -> "handleSearchTwitterFresh"
      [] toolName = "get_tweet_details" -> "handleGetTweetDetails"
      [] OTHER -> "Unknown Twitter tool"

\* executeToolCall whose deploymentTools list lacks can_deploy_now.
executeToolCall_ShortList(toolName) ==
    CASE toolName = "get_coin_state" -> "handleGetCoinState"
      [] toolName = "buyback" -> "handleBuyback"
      [] toolName = "burn_tokens" -> "handleBurnTokens"
      [] toolName = "airdrop_sol" -> "handleAirdropSol"
      [] toolName = "airdrop_tokens" -> "handleAirdropTokens"
      [] toolName = "send_sol_to_treasury" -> "handleSendSolToTreasury"
      [] toolName = "send_tokens_to_treasury" -> "handleSendTokensToTreasury"
      [] toolName \in {"scan_market_meta", "find_twitter_opportunities",
                       "analyze_token_patterns", "find_all_opportunities"} ->
            executeResearchToolCall(toolName)
      [] toolName \in {"get_rolling_summary", "get_wallet_balance", "deploy_token",
                       "get_recent_deployments"} ->
            executeDeploymentToolCall(toolName)
      [] toolName \in {"search_twitter_custom", "search_twitter_fresh",
                       "get_tweet_details"} ->
            executeTwitterToolCall(toolName)
      [] OTHER -> "Unknown tool"

\* The handler executeToolCall runs for a name, or the error it throws.
executeToolCall(toolName) ==
    CASE toolName = "get_coin_state" -> "handleGetCoinState"
      [] toolName = "buyback" -> "handleBuyback"
      [] toolName = "burn_tokens" -> "handleBurnTokens"
      [] toolName = "airdrop_sol" -> "handleAirdropSol"
      [] toolName = "airdrop_tokens" -> "handleAirdropTokens"
      [] toolName = "send_sol_to_treasury" -> "handleSendSolToTreasury"
      [] toolName = "send_tokens_to_treasury" -> "handleSendTokensToTreasury"
      [] toolName \in {"scan_market_meta", "find_twitter_opportunities",
                       "analyze_token_patterns", "find_all_opportunities"} ->
            executeResearchToolCall(toolName)
      [] toolName \in {"get_rolling_summary", "get_wallet_balance", "deploy_token",
                       "get_recent_deployments", "can_deploy_now"} ->
            executeDeploymentToolCall(toolName)
      [] toolName \in {"search_twitter_custom", "search_twitter_fresh",
                       "get_tweet_details"} ->
            executeTwitterToolCall(toolName)
      [] OTHER -> "Unknown tool"

UnknownErrors ==
    {"Unknown tool", "Unknown research tool", "Unknown deployment tool",
     "Unknown Twitter tool"}

CoinHandlers ==
    {"handleGetCoinState", "handleBuyback", "handleBurnTokens", "handleAirdropSol",
     "handleAirdropTokens", "handleSendSolToTreasury", "handleSendTokensToTreasury"}

\* res.status(500).json({success: false, error}) of the route's catch.
Respond500(r, error) ==
    [r EXCEPT !.pc = "done", !.status = 500, !.success = "false", !.error = error]

\* res.json({success: true, result})
Respond200(r) == [r EXCEPT !.pc = "done", !.status = 200, !.success = "true"]

\* CoinChecks that does not look at the treasury wallet.
CoinChecks_NoTreasury(handler, coin, enabled_actions, treasury_wallet) ==
    IF coin = "null" THEN "not found"
    ELSE CASE handler = "handleGetCoinState" -> ""
           [] handler = "handleBuyback" ->
                IF "buyback" \in enabled_actions THEN "" ELSE "not enabled"
           [] handler = "handleBurnTokens" ->
                IF "burn" \in enabled_actions THEN "" ELSE "not enabled"
           [] handler = "handleAirdropSol" ->
                IF "airdrop_sol" \in enabled_actions THEN "" ELSE "not enabled"
           [] handler = "handleAirdropTokens" ->
                IF "airdrop_tokens" \in enabled_actions THEN "" ELSE "not enabled"
           [] handler = "handleSendSolToTreasury" ->
                IF "treasury_sol" \in enabled_actions THEN "" ELSE "not enabled"
           [] handler = "handleSendTokensToTreasury" ->
                IF "treasury_tokens" \in enabled_actions THEN "" ELSE "not enabled"

\* The error a coin handler throws after its findOne, "" if it goes on.
CoinChecks(handler, coin, enabled_actions, treasury_wallet) ==
    IF coin = "null" THEN "not found"
    ELSE CASE handler = "handleGetCoinState" -> ""
           [] handler = "handleBuyback" ->
                IF "buyback" \in enabled_actions THEN "" ELSE "not enabled"
           [] handler = "handleBurnTokens" ->
                IF "burn" \in enabled_actions THEN "" ELSE "not enabled"
           [] handler = "handleAirdropSol" ->
                IF "airdrop_sol" \in enabled_actions THEN "" ELSE "not enabled"
           [] handler = "handleAirdropTokens" ->
                IF "airdrop_tokens" \in enabled_actions THEN "" ELSE "not enabled"
           [] handler = "handleSendSolToTreasury" ->
                IF "treasury_sol" \notin enabled_actions THEN "not enabled"
                ELSE IF ~treasury_wallet THEN "no treasury wallet" ELSE ""
           [] handler = "handleSendTokensToTreasury" ->
                IF "treasury_tokens" \notin enabled_actions THEN "not enabled"
                ELSE IF ~treasury_wallet THEN "no treasury wallet" ELSE ""

\* The executor a coin action handler calls.
ExecutorOf(handler) ==
    CASE handler = "handleBuyback" -> "executeBuyback"
      [] handler = "handleBurnTokens" -> "executeBurnTokens"
      [] handler = "handleAirdropSol" -> "executeAirdropSol"
      [] handler = "handleAirdropTokens" -> "executeAirdropTokens"
      [] handler = "handleSendSolToTreasury" -> "executeSendSolToTreasury"
      [] handler = "handleSendTokensToTreasury" -> "executeSendTokensToTreasury"

\* The handlers that await solTrackerClient before they go on.
AwaitsHolders(handler) ==
    handler \in {"handleGetCoinState", "handleAirdropSol", "handleAirdropTokens"}

\* POST /mcp/tools/:toolName up to the first await of the handler.
Post(r, toolName) ==
    /\ request[r].pc = "idle"
    /\ \A q \in Requests : q < r => request[q].pc = "done"
    /\ LET posted == [IdleRequest EXCEPT !.toolName = toolName]
           handler == executeToolCall(toolName)
       IN request' = [request EXCEPT ![r] =
            IF ~FindTool(toolName)
            THEN [posted EXCEPT !.pc = "done", !.status = 404,
                                !.error = "Tool not found"]
            ELSE IF handler \in UnknownErrors THEN Respond500(posted, handler)
            ELSE [posted EXCEPT !.handler = handler,
                     !.pc = IF handler \in CoinHandlers THEN "find_coin"
                            ELSE "handler"]]
    /\ UNCHANGED ToolFrame

\* coinsCollection.findOne answers (or throws) and the handler checks the
\* coin; a coin action handler that has nothing more to await calls its
\* executor.
FindCoin(r) ==
    /\ request[r].pc = "find_coin"
    /\ \/ request' = [request EXCEPT ![r] = Respond500(request[r], "exception")]
       \/ \E coin \in {"null", "found"}, enabled_actions \in EnabledSet,
             treasury_wallet \in BOOLEAN :
            /\ coin = "null" => enabled_actions = {} /\ ~treasury_wallet
            /\ LET read == [request[r] EXCEPT !.coin = coin,
                                !.enabled_actions = enabled_actions,
                                !.treasury_wallet = treasury_wallet]
                   error == CoinChecks(read.handler, coin, enabled_actions,
                                       treasury_wallet)
               IN request' = [request EXCEPT ![r] =
                    IF error # "" THEN Respond500(read, error)
                    ELSE IF AwaitsHolders(read.handler)
                    THEN [read EXCEPT !.pc = "holders"]
                    ELSE [read EXCEPT !.pc = "executor",
                                      !.executor = ExecutorOf(read.handler)]]
    /\ UNCHANGED ToolFrame

\* solTrackerClient answers (or throws): get_coin_state returns, an airdrop
\* handler calls its executor.
Holders(r) ==
    /\ request[r].pc = "holders"
    /\ \/ request' = [request EXCEPT ![r] = Respond500(request[r], "exception")]
       \/ request' = [request EXCEPT ![r] =
              IF request[r].handler = "handleGetCoinState"
              THEN Respond200(request[r])
              ELSE [request[r] EXCEPT !.pc = "executor",
                        !.executor = ExecutorOf(request[r].handler)]]
    /\ UNCHANGED ToolFrame

\* The executor returns its ExecutionResult or throws.
ExecutorReturn(r) ==
    /\ request[r].pc = "executor"
    /\ \/ request' = [request EXCEPT ![r] = Respond200(request[r])]
       \/ request' = [request EXCEPT ![r] = Respond500(request[r], "exception")]
    /\ UNCHANGED ToolFrame

\* A research, deployment or Twitter handler returns or throws.
HandlerReturn(r) ==
    /\ request[r].pc = "handler"
    /\ \/ request' = [request EXCEPT ![r] = Respond200(request[r])]
       \/ request' = [request EXCEPT ![r] = Respond500(request[r], "exception")]
    /\ UNCHANGED ToolFrame

NextTool ==
    \/ \E r \in Requests, toolName \in ToolNameSet : Post(r, toolName)
    \/ \E r \in Requests : FindCoin(r)
    \/ \E r \in Requests : Holders(r)
    \/ \E r \in Requests : ExecutorReturn(r)
    \/ \E r \in Requests : HandlerReturn(r)

ToolSpec == Init /\ [][NextTool]_vars

Next ==
    \/ \E c \in Calls : Start(c)
    \/ \E c \in Calls : RefreshQuery(c)
    \/ \E c \in Calls : RefreshApply(c)
    \/ \E c \in Calls : ConfirmFind(c)
    \/ \E c \in Calls : DirectFind(c)
    \/ \E c \in Calls : Balance(c)
    \/ \E c \in Calls : Image(c)
    \/ \E c \in Calls : Launch(c)
    \/ \E c \in Calls : Record(c)
    \/ Tick
    \/ StoreFlip

Spec == Init /\ [][Next]_vars

NextSeq ==
    \/ \E c \in Calls : StartSeq(c)
    \/ \E c \in Calls : RefreshQuery(c)
    \/ \E c \in Calls : RefreshApply(c)
    \/ \E c \in Calls : ConfirmFind(c)
    \/ \E c \in Calls : DirectFind(c)
    \/ \E c \in Calls : Balance(c)
    \/ \E c \in Calls : Image(c)
    \/ \E c \in Calls : Launch(c)
    \/ \E c \in Calls : Record(c)
    \/ Tick
    \/ StoreFlip

SeqSpec == Init /\ [][NextSeq]_vars

\* deploy_token calls without a trigger reference, made one after another,
\* with get_wallet_balance and can_deploy_now calls arriving at any time.
NextQuery ==
    \/ \E c \in Calls : StartPlain(c)
    \/ \E c \in Calls : Balance(c)
    \/ \E c \in Calls : Image(c)
    \/ \E c \in Calls : Launch(c)
    \/ \E c \in Calls : Record(c)
    \/ Tick
    \/ StoreFlip
    \/ GetWalletBalance
    \/ GetWalletBalanceAnswer
    \/ CanDeployNow
    \/ CanDeployNowAnswer
    \/ \E tool \in {"get_rolling_summary", "get_recent_deployments"} : GetSummary(tool)
    \/ GetSummaryAnswer

QuerySpec == Init /\ [][NextQuery]_vars

\* The shape of the state.
TypeOK ==
    /\ now \in StartTime..MaxNow
    /\ balance \in 0..60
    /\ \A c \in Calls : call[c].pc \in {"idle", "refresh_find", "refresh_apply",
          "confirm_find", "direct_find", "balance", "image", "launch", "record", "done"}

\* ------------------------------------------------- vocabulary of the claims
\* The tweet id of the trigger reference call c carries (NoId: none).
TweetIdOf(c) == extractTweetId(call[c].url)

\* Call c has passed every check and been handed to the executor path.
Admitted(c) ==
    \/ call[c].pc \in {"image", "launch", "record"}
    \/ call[c].pc = "done" /\ call[c].error \in {"ok", "launch_error", "exception"}

\* The store holds a deployment whose trigger has exactly this tweet id.
StoreHolds(tweetId) == \E d \in store : extractTweetId(d.tweet_url) = tweetId

\* Some deploy_token call has returned success.
Deployed == \E d \in Calls : call[d].pc = "done" /\ call[d].error = "ok"

\* In this step call c evaluates the cooldown check (server.ts:413): it comes
\* from its arrival or from its duplicate check and leaves through the gate.
GateStep(c) ==
    /\ call[c].pc \in {"idle", "direct_find"}
    /\ \/ call'[c].pc = "balance"
       \/ call'[c].pc = "done" /\ call'[c].error \in {"too_soon", "confidence_low", "no_key"}

\* In this step the duplicate check of call c returns.
DedupReturns(c) ==
    /\ call[c].pc \in {"confirm_find", "direct_find"}
    /\ call'[c].pc \notin {"confirm_find", "direct_find"}

\* In this step call c gets the answer of its balance query.
BalanceStep(c) == call[c].pc = "balance" /\ call'[c].pc # "balance"

\* The DeploymentResult of a returned call as a program can read it: which
\* of its fields are set.  The error field is a sentence for a reader (the
\* gate's own wording, or whatever message the executor or another
\* collaborator reported).
DeploymentResult(rec) ==
    [success |-> rec.error = "ok",
     mint |-> rec.error = "ok",
     error |-> rec.error # "ok"]

\* launchToken was invoked for the returned call and the launch failed.
AttemptedAndFailed(rec) == rec.pc = "done" /\ rec.error = "launch_error"

\* The returned call was rejected by a check of the gate.
Rejected(rec) ==
    /\ rec.pc = "done"
    /\ rec.error \in {"duplicate", "too_soon", "confidence_low", "no_key",
                      "insufficient_balance", "not_enough_available"}

\* A cooldown check made now rejects (server.ts:414, 617).
Cooling ==
    lastDeploymentTime > 0 /\ now - lastDeploymentTime < MIN_DEPLOYMENT_INTERVAL

\* In this step call c arrives.
ArrivalStep(c) == call[c].pc = "idle" /\ call'[c].pc # "idle"

\* In this step the duplicate check of call c looks its id up in the
\* in-memory set (server.ts:176).
CacheStep(c) ==
    /\ call[c].pc \in {"idle", "refresh_find", "refresh_apply"}
    /\ call'[c].pc \in {"confirm_find", "direct_find"}

\* Call c is inside its duplicate check.
InDedup(c) == call[c].pc \in {"refresh_find", "refresh_apply", "confirm_find", "direct_find"}

\* ------------------------------------------------------------------ claims

\* C1: among the deploy_token proposals that carry the same trigger
\* reference (tweet URLs with the same status id), at most one ever reaches
\* a successful launch.
C1_OneLaunchPerTrigger ==
    \A c, d \in Calls :
        (c # d /\ call[c].launched /\ call[d].launched /\ TweetIdOf(c) # NoId)
            => TweetIdOf(c) # TweetIdOf(d)

\* C2: two proposals with distinct trigger references that arrive within
\* one cooldown interval of each other are never both admitted to the
\* executor, whether or not their executions overlap.
C2_OneAdmissionPerWindow ==
    (now - StartTime < MIN_DEPLOYMENT_INTERVAL) =>
        \A c, d \in Calls :
            (c # d /\ TweetIdOf(c) # NoId /\ TweetIdOf(d) # NoId
                 /\ TweetIdOf(c) # TweetIdOf(d))
                => ~(Admitted(c) /\ Admitted(d))

\* C3: no deploy beyond available funds: while the executor runs for a call
\* the wallet holds the reserve plus that call's initial buy, and launches
\* never take the wallet below the reserve.
C3_LaunchWithinFunds ==
    /\ \A c \in Calls :
          call[c].pc = "launch" => balance - MIN_WALLET_RESERVE >= call[c].buy
    /\ balance >= MIN_WALLET_RESERVE

C5_AlwaysInsufficientFunds ==
    [][\A c \in Calls :
          (call[c].pc # "done" /\ call'[c].pc = "done" /\ keyConfigured
               /\ Available(balance) < Dbl(DEFAULT_INITIAL_BUY))
              => call'[c].error \in {"insufficient_balance", "not_enough_available"}]_vars

\* C5 amended: a proposal whose balance query answers with an available
\* amount below its requested initial buy never goes on to the executor; it
\* returns one of the two insufficient-funds rejections, and the
\* not-enough-available rejection is given exactly below the requested buy.
C5_InsufficientFundsAtBalanceCheck ==
    [][\A c \in Calls : BalanceStep(c) =>
          /\ call'[c].pc \in {"image", "launch"}
                => Available(balance) >= Dbl(call'[c].buy)
          /\ (call'[c].pc = "done" /\ call'[c].error # "thrown")
                => /\ call'[c].error \in {"insufficient_balance", "not_enough_available"}
                   /\ call'[c].error = "not_enough_available"
                         => Available(balance) < Dbl(call'[c].buy)
                   /\ call'[c].error = "insufficient_balance"
                         => Available(balance) < Dbl(DEFAULT_INITIAL_BUY)]_vars

\* C5 witness: a proposal that passed the earlier checks was rejected
\* because the available amount did not cover its initial buy.
C5_Witness ==
    \E c \in Calls :
        /\ call[c].pc = "done" /\ call[c].error = "not_enough_available"
        /\ call[c].avail < Dbl(call[c].buy)

\* C6: the checks run in the order duplicate, cooldown, low confidence,
\* insufficient funds, the first failing one is reported, and a proposal
\* goes past a check only if it passes it: past the cooldown check only
\* outside the cooldown, past the confidence check only with a proposed
\* confidence of at least the minimum (or none proposed), past the balance
\* check only with enough available.
C6_FirstFailingCheck ==
    [][\A c \in Calls :
          /\ GateStep(c) =>
                LET cooling == lastDeploymentTime > 0
                                 /\ now - lastDeploymentTime < MIN_DEPLOYMENT_INTERVAL
                IN /\ cooling <=> call'[c].error = "too_soon"
                   /\ call'[c].error = "confidence_low" => call'[c].score < MIN_CONFIDENCE
                   /\ call'[c].pc = "balance" =>
                         (call'[c].score = NoScore \/ call'[c].score >= MIN_CONFIDENCE)
          /\ BalanceStep(c) =>
                (call'[c].pc \in {"image", "launch"}
                    => Available(balance) >= Dbl(call'[c].buy))]_vars

\* C7: the cooldown timestamp is set when a proposal is admitted and stays
\* when its launch fails: once an admitted proposal has returned with a
\* failed launch, a proposal whose cooldown check runs within the cooldown
\* interval is rejected for cooldown.
C7_FailedLaunchKeepsCooldown ==
    [][\A c \in Calls :
          (/\ GateStep(c)
           /\ now - StartTime < MIN_DEPLOYMENT_INTERVAL
           /\ \E d \in Calls : d # c /\ call[d].pc = "done" /\ call[d].error = "launch_error")
              => call'[c].error = "too_soon"]_vars

\* C8: when a proposal that carries a trigger reference has returned after
\* a successful launch, the store holds its record and the in-memory set
\* holds its tweet id.
C8_RecordAndDedupEntry ==
    \A c \in Calls :
        (call[c].pc = "done" /\ call[c].launched /\ TweetIdOf(c) # NoId)
            => /\ \E r \in store : r.mint = c
               /\ TweetIdOf(c) \in deployedTweetIds

\* C9: for calls made one after another, a duplicate check for a reference
\* that no launched deployment has used returns duplicate=false, however
\* often it is repeated, and after a successful deployment with a reference
\* every later check of that reference returns duplicate=true.
C9_DedupIdempotence ==
    [][\A c \in Calls : DedupReturns(c) =>
          LET used == \E d \in Calls :
                         d # c /\ call[d].launched /\ TweetIdOf(d) = TweetIdOf(c)
              succeeded == \E d \in Calls :
                         /\ d # c /\ call[d].pc = "done" /\ call[d].error = "ok"
                         /\ TweetIdOf(d) = TweetIdOf(c)
          IN /\ (~used /\ ~FindOneMatches(TweetIdOf(c))) => call'[c].error # "duplicate"
             /\ succeeded => call'[c].error = "duplicate"]_vars

\* C10: with the store reachable, a duplicate check whose tweet id belongs
\* to a deployment in the store returns duplicate=true, and when it got
\* there through the direct store lookup (the id was not in the in-memory
\* set) the id is in the in-memory set when the check returns.
C10_NoFalseNegative ==
    [][\A c \in Calls :
          (DedupReturns(c) /\ storeUp /\ StoreHolds(TweetIdOf(c)))
              => /\ call'[c].error = "duplicate"
                 /\ call[c].pc = "direct_find" => TweetIdOf(c) \in deployedTweetIds']_vars

\* C10 witness: a proposal was rejected as a duplicate of a deployment that
\* the store holds, and its id is in the in-memory set.
C10_Witness ==
    \E c \in Calls :
        /\ call[c].pc = "done" /\ call[c].error = "duplicate"
        /\ storeUp /\ StoreHolds(TweetIdOf(c))
        /\ TweetIdOf(c) \in deployedTweetIds

\* C11: a proposal whose trigger reference yields no tweet id never enters
\* the duplicate check (no refresh, no cache lookup, no store query, the
\* cache and its refresh time untouched) and is never rejected as a
\* duplicate; its arrival step ends as the gate checks end for a proposal
\* with no trigger reference and the same confidence score.
C11_UnparseableReference ==
    [][\A c \in Calls :
          (ArrivalStep(c) /\ call'[c].url # NoUrl /\ extractTweetId(call'[c].url) = NoId)
              => /\ ~InDedup(c)'
                 /\ call'[c].error # "duplicate"
                 /\ UNCHANGED <<deployedTweetIds, lastTweetIdCacheRefresh, store>>
                 /\ \E score \in ScoreSet :
                       [call'[c] EXCEPT !.url = NoUrl] = GateChecks(IdleCall, score)]_vars

\* C11 witness: a proposal with a reference that has no status id was
\* launched.
C11_Witness ==
    \E c \in Calls :
        call[c].url # NoUrl /\ TweetIdOf(c) = NoId /\ call[c].launched

\* C12: a duplicate check that arrives more than the TTL after the last
\* refresh starts a refresh; a refresh the store answers replaces the whole
\* set by the ids of the documents it received and stamps the refresh time;
\* and with the store reachable no lookup in the in-memory set happens more
\* than the TTL after the refresh time.
C12_RefreshBeforeLookup ==
    [][\A c \in Calls :
          /\ (ArrivalStep(c) /\ TweetIdOf(c)' # NoId
                  /\ now - lastTweetIdCacheRefresh > TWEET_ID_CACHE_TTL)
                => call'[c].pc = "refresh_find"
          /\ (call[c].pc = "refresh_find" /\ call'[c].pc # "refresh_find" /\ storeUp)
                => call'[c].pc = "refresh_apply" /\ call'[c].snap = StoredTweetIds
          /\ (call[c].pc = "refresh_apply" /\ call'[c].pc # "refresh_apply")
                => deployedTweetIds' = call[c].snap /\ lastTweetIdCacheRefresh' = now
          /\ (CacheStep(c) /\ storeUp)
                => now - lastTweetIdCacheRefresh' <= TWEET_ID_CACHE_TTL]_vars

\* C12 witness: a lookup found the set, refreshed before, older than the
\* TTL, and the store has answered its rebuild query with the ids of the
\* deployments it holds.
C12_Witness ==
    \E c \in Calls :
        /\ call[c].pc = "refresh_apply" /\ call[c].snap # {}
        /\ lastTweetIdCacheRefresh >= StartTime
        /\ now - lastTweetIdCacheRefresh > TWEET_ID_CACHE_TTL

\* C13: while the store is unreachable the duplicate check never throws; a
\* failing refresh leaves the in-memory set as it was and the lookup goes
\* on; an id found in the set is reported as a duplicate; an id not in the
\* set is reported as no duplicate and the proposal goes on to the cooldown,
\* confidence and key checks.
C13_StoreOutage ==
    [][\A c \in Calls :
          (~storeUp /\ call[c].pc \in {"refresh_find", "confirm_find", "direct_find"}
               /\ call'[c] # call[c]) =>
          /\ call'[c].error \notin {"thrown", "exception"}
          /\ deployedTweetIds' = deployedTweetIds
          /\ call[c].pc = "refresh_find" =>
                call'[c] = CacheCheck(call[c], deployedTweetIds)
          /\ call[c].pc = "confirm_find" => call'[c].error = "duplicate"
          /\ (call[c].pc = "direct_find" /\ TweetIdOf(c) \notin deployedTweetIds) =>
                /\ call'[c].error # "duplicate"
                /\ \E score \in ScoreSet : call'[c] = GateChecks(call[c], score)]_vars

\* C13 witness: with the store down a proposal was rejected as a duplicate
\* on the word of the in-memory set alone.
C13_Witness ==
    \E c \in Calls :
        /\ call[c].pc = "done" /\ call[c].error = "duplicate"
        /\ call[c].existingToken = "Unknown token"
        /\ TweetIdOf(c) \in deployedTweetIds

\* C14: get_wallet_balance returns, for the balance it read, available =
\* max(0, balance - reserve) (the double nearest to that amount or a
\* neighbour of it) and can_deploy exactly when balance - reserve is at
\* least the 0.05 SOL floor; and a proposal whose balance query answers
\* 0.32 SOL is rejected for insufficient funds.
C14_BalanceGuardNumerics ==
    [][/\ (query'.tool = "get_wallet_balance" /\ query'.pc = "done" /\ ~query'.thrown) =>
            LET spendable == query'.balance_sol
                exact == IF spendable > MIN_WALLET_RESERVE
                         THEN spendable - MIN_WALLET_RESERVE ELSE 0
            IN /\ query'.available - Dbl(exact) \in {-1, 0, 1}
               /\ query'.can_deploy <=> (exact >= MIN_DEPLOY_AVAILABLE)
       /\ \A c \in Calls :
            (BalanceStep(c) /\ balance = 32 /\ call'[c].error # "thrown") =>
                call'[c].error \in {"insufficient_balance", "not_enough_available"}]_vars

\* C15: a deploy_token call whose balance query fails returns a rejection
\* value and does not invoke the executor: no call ends by throwing.
C15_BalanceFailureRejects ==
    \A c \in Calls : call[c].pc = "done" => call[c].error # "thrown"

\* C16: without a signing key no deploy_token call throws, awaits the
\* balance query or reaches the executor, and a proposal that passes the
\* cooldown and confidence checks returns the 'AGENT_PRIVATE_KEY not
\* configured' rejection; and can_deploy_now returns can_deploy=false with
\* that reason among its reasons.
C16_KeyNotConfigured ==
    [][~keyConfigured =>
          /\ \A c \in Calls :
                /\ call'[c].pc \notin {"balance", "image", "launch", "record"}
                /\ call'[c].error \notin {"thrown", "exception"}
                /\ call'[c].attempts = 0
                /\ GateStep(c) =>
                      /\ call'[c].error \in {"confidence_low", "no_key"}
                      /\ call'[c].error = "confidence_low" =>
                            call'[c].score < MIN_CONFIDENCE
          /\ (query'.tool = "can_deploy_now" /\ query'.pc = "done") =>
                /\ ~query'.thrown
                /\ ~query'.can_deploy
                /\ "AGENT_PRIVATE_KEY not configured" \in query'.reasons]_vars

\* C16 witness: without a key a proposal was rejected for the missing key
\* and can_deploy_now has answered no with that reason.
C16_Witness ==
    /\ ~keyConfigured
    /\ \E c \in Calls : call[c].pc = "done" /\ call[c].error = "no_key"
    /\ query.tool = "can_deploy_now" /\ query.pc = "done" /\ ~query.can_deploy
    /\ "AGENT_PRIVATE_KEY not configured" \in query.reasons

\* C17: no proposal with a confidence score from 0 to 59 gets past the
\* confidence check to the balance query.
C17_LowScoresRejected ==
    \A c \in Calls :
        call[c].pc = "balance" => ~(call[c].score \in 0..(MIN_CONFIDENCE - 1))

\* C18: a proposal is handed to the executor path only with a proposed
\* confidence score above 70; a score of 70 or less, or none, never is.
C18_LaunchOnlyAbove70 ==
    [][\A c \in Calls :
          (BalanceStep(c) /\ call'[c].pc \in {"image", "launch"})
              => call[c].score > 70]_vars

\* C19: the result of a call whose launch was attempted and failed differs,
\* in what a program can read of it, from the result of every call that a
\* check of the gate rejected.
C19_FailureDistinctFromRejection ==
    \A c, d \in Calls :
        (AttemptedAndFailed(call[c]) /\ Rejected(call[d]))
            => DeploymentResult(call[c]) # DeploymentResult(call[d])

\* C20: within one deploy_token call launchToken is invoked at most once:
\* while it runs it has not returned to this call before, it never returns
\* to a call twice, and a call whose launch failed has returned and invokes
\* nothing more.
C20_NoRetry ==
    [][\A c \in Calls :
          /\ call'[c].attempts <= 1
          /\ call'[c].pc = "launch" => call'[c].attempts = 0
          /\ (call[c].pc = "launch" /\ call'[c] # call[c] /\ ~call'[c].launched)
                => call'[c].pc = "done" /\ call'[c].error = "launch_error"
          /\ call[c].pc = "done" => call'[c] = call[c]]_vars

\* C20 witness: a call whose one launch attempt failed has returned.
C20_Witness ==
    \E c \in Calls :
        /\ call[c].pc = "done" /\ call[c].error = "launch_error"
        /\ call[c].attempts = 1 /\ ~call[c].launched

\* C21: a call is handed to the executor path only by the answer of its own
\* balance query, with a balance that passes both balance checks; it awaits
\* the balance query only out of its own duplicate check (or without a
\* tweet id), outside the cooldown, with a confidence that passes and the
\* key configured; launchToken is entered only from there; and a call that
\* returned a rejection has made no launchToken call.
C21_ChecksBeforeExecutor ==
    [][\A c \in Calls :
          /\ (call'[c].pc = "balance" /\ call[c].pc # "balance") =>
                /\ call[c].pc \in {"idle", "direct_find"}
                /\ call[c].pc = "idle" => TweetIdOf(c)' = NoId
                /\ call[c].pc = "direct_find" =>
                      ~(storeUp /\ FindOneMatches(TweetIdOf(c)))
                /\ ~Cooling
                /\ Confidence(call'[c].score) >= MIN_CONFIDENCE
                /\ keyConfigured
          /\ (call'[c].pc \in {"image", "launch"} /\ call[c].pc \notin {"image", "launch"}) =>
                /\ call[c].pc = "balance"
                /\ CanDeploy(balance)
                /\ Available(balance) >= Dbl(call'[c].buy)
          /\ (call'[c].pc = "launch" /\ call[c].pc # "launch") =>
                call[c].pc \in {"balance", "image"}
          /\ call'[c].attempts > call[c].attempts => call[c].pc = "launch"
          /\ Rejected(call'[c]) => (call'[c].attempts = 0 /\ ~call'[c].launched)]_vars

\* C21 witness: one call was launched and another returned a rejection
\* without an executor call.
C21_Witness ==
    \E c, d \in Calls :
        /\ call[c].launched /\ call[c].attempts = 1
        /\ Rejected(call[d]) /\ call[d].attempts = 0

EvaluateStep(p) ==
    /\ position[p].outcome = "active" /\ position[p].pc = "idle"
    /\ position'[p] # position[p]
    /\ position'[p].lastCycle # "skipped" \/ position[p].lastCycle = "skipped"
    /\ position'[p].outcome = "active"

\* C23: with take-profit 50%, a tracker cycle that finds an active
\* position at ROI 51% delegates a sell, and when the executor has sold the
\* outcome is profitable (for any sold position: profitable if ROI > 0,
\* else loss); a cycle that finds it at ROI 49% with recent trades leaves
\* the outcome active, issues no sell and changes the current and peak
\* values only (and the note of what the cycle did).
C23_TakeProfitScenario ==
    [][\A p \in Positions :
          /\ (EvaluateStep(p) /\ ROI(position'[p].current) = 51) =>
                position'[p].pc = "selling"
          /\ (EvaluateStep(p) /\ ROI(position'[p].current) = 49
                  /\ ~position'[p].inactive) =>
                /\ position'[p].pc = "idle" /\ position'[p].outcome = "active"
                /\ position'[p].sells = position[p].sells
                /\ position'[p] = [position[p] EXCEPT
                                      !.current = position'[p].current,
                                      !.peak = position'[p].peak,
                                      !.inactive = FALSE,
                                      !.lastCycle = "held"]
          /\ (position[p].pc = "selling" /\ position'[p].sells > position[p].sells) =>
                /\ position'[p].outcome =
                      (IF ROI(position[p].current) > 0 THEN "profitable" ELSE "loss")
                /\ ROI(position[p].current) = 51 => position'[p].outcome = "profitable"
          /\ position'[p].outcome \in {"profitable", "loss"} => position'[p].sells = 1]_vars

\* C23 witness: a position found at ROI 51% was sold and is profitable
\* while another, found at 49% with recent trades, is still active.
C23_Witness ==
    \E p, q \in Positions :
        /\ position[p].outcome = "profitable" /\ ROI(position[p].current) = 51
        /\ position[p].sells = 1
        /\ position[q].outcome = "active" /\ ROI(position[q].current) = 49
        /\ ~position[q].inactive /\ position[q].lastCycle = "held"

\* C24: the tracker sells exactly when the ROI it computed is above 50%,
\* or below -30%, or above 20% with no trade for 24 hours; in every other
\* case it holds, so at exactly -30%, and at exactly 50% with recent
\* trades, and at exactly 20% with no trade for 24 hours.
C24_ExitPolicy ==
    [][\A p \in Positions : EvaluateStep(p) =>
          LET roi == ROI(position'[p].current)
              dead == position'[p].inactive
              sell == position'[p].pc = "selling"
          IN /\ sell <=> (roi > 50 \/ roi < -30 \/ (dead /\ roi > 20))
             /\ ((roi = 50 /\ ~dead) \/ roi = -30 \/ roi = 20) => ~sell
             /\ ~sell => position'[p].lastCycle = "held"]_vars

\* C24 witness: a position exactly at the take-profit threshold was held,
\* and a dead position above the floor is being sold.
C24_Witness ==
    \E p, q \in Positions :
        /\ ROI(position[p].current) = 50 /\ position[p].lastCycle = "held"
        /\ position[p].outcome = "active" /\ position[p].pc = "idle"
        /\ ~position[p].inactive
        /\ position[q].pc = "selling" /\ position[q].inactive
        /\ ROI(position[q].current) = 21

\* The coin action tools with the enabled_actions flag each one needs, and
\* the two that need a treasury wallet.
CoinActionFlag ==
    [buyback |-> "buyback", burn_tokens |-> "burn", airdrop_sol |-> "airdrop_sol",
     airdrop_tokens |-> "airdrop_tokens", send_sol_to_treasury |-> "treasury_sol",
     send_tokens_to_treasury |-> "treasury_tokens"]

CoinActionTools == DOMAIN CoinActionFlag

TreasuryTools == {"send_sol_to_treasury", "send_tokens_to_treasury"}

\* The coin of request r was read and lets the tool of r act.
CoinAllows(r) ==
    /\ request[r].coin = "found"
    /\ CoinActionFlag[request[r].toolName] \in request[r].enabled_actions
    /\ request[r].toolName \in TreasuryTools => request[r].treasury_wallet

\* C25: for each coin action tool an executor is invoked only for a coin
\* that exists, has the matching enabled_actions flag set and, for the two
\* treasury tools, a treasury wallet; a request whose coin was read and
\* fails one of these ends with status 500 and success=false and no
\* executor invoked; no other tool and no unlisted name invokes an executor.
C25_CoinActionGuards ==
    \A r \in Requests :
        /\ request[r].executor # "" =>
              /\ request[r].toolName \in CoinActionTools
              /\ CoinAllows(r)
        /\ (request[r].toolName \in CoinActionTools /\ request[r].coin # "none"
               /\ ~CoinAllows(r)) =>
              /\ request[r].pc = "done" /\ request[r].status = 500
              /\ request[r].success = "false" /\ request[r].error # ""
              /\ request[r].executor = ""

\* C25 witness: a treasury transfer of a coin with flag and wallet reached
\* its executor and was answered, and one of a coin with the flag set but no
\* treasury wallet was refused.
C25_Witness ==
    \E r, q \in Requests :
        /\ request[r].toolName = "send_sol_to_treasury"
        /\ request[r].executor = "executeSendSolToTreasury"
        /\ request[r].status = 200 /\ request[r].success = "true"
        /\ request[q].toolName = "send_tokens_to_treasury"
        /\ request[q].coin = "found" /\ ~request[q].treasury_wallet
        /\ "treasury_tokens" \in request[q].enabled_actions
        /\ request[q].status = 500 /\ request[q].success = "false"
        /\ request[q].executor = ""

\* C30: a posted request runs a handler if and only if its name is listed
\* in MCP_TOOLS; an unlisted name is answered 404 with no handler run, and
\* no request ends in an 'Unknown tool' error.
C30_HandlerIffListed ==
    \A r \in Requests : request[r].pc # "idle" =>
        /\ request[r].handler # "" <=> FindTool(request[r].toolName)
        /\ ~FindTool(request[r].toolName) =>
              /\ request[r].pc = "done" /\ request[r].status = 404
              /\ request[r].executor = "" /\ request[r].coin = "none"
        /\ request[r].error \notin UnknownErrors
        /\ request[r].status = 404 => ~FindTool(request[r].toolName)

\* C30 witness: an unlisted name was answered 404 without a handler, and
\* the last name of the deployment list was dispatched to its handler and
\* answered.
C30_Witness ==
    \E r, q \in Requests :
        /\ request[r].toolName = "claim_fees" /\ request[r].status = 404
        /\ request[r].handler = ""
        /\ request[q].toolName = "can_deploy_now"
        /\ request[q].handler = "handleCanDeployNow"
        /\ request[q].status = 200

\* C26: lastDeploymentTime changes only in the step that ends a
\* deploy_token call whose launch succeeded and whose record was saved, and
\* then to the current time, which is not less than its old value; a step
\* of get_wallet_balance, can_deploy_now, get_recent_deployments or
\* get_rolling_summary, and a step that rejects or fails a deploy_token
\* call, leaves it unchanged.
C26_LastDeploymentTimeFrame ==
    [][/\ lastDeploymentTime' # lastDeploymentTime =>
             /\ \E c \in Calls :
                   /\ call[c].pc = "record" /\ call[c].launched
                   /\ call'[c].pc = "done" /\ call'[c].error = "ok"
                   /\ store' # store /\ store \subseteq store'
             /\ lastDeploymentTime' = now
       /\ lastDeploymentTime' >= lastDeploymentTime
       /\ query' # query => lastDeploymentTime' = lastDeploymentTime
       /\ \A c \in Calls :
             (call'[c] # call[c] /\ call'[c].pc = "done" /\ call'[c].error # "ok") =>
                lastDeploymentTime' = lastDeploymentTime]_vars

\* C26 witness: after a deployment, a deploy_token call failed at the
\* record, a summary tool was answered, and lastDeploymentTime is still the
\* time of the deployment.
C26_Witness ==
    /\ lastDeploymentTime > 0 /\ lastDeploymentTime < now
    /\ \E c \in Calls : call[c].pc = "done" /\ call[c].launched
                          /\ call[c].error = "exception"
    /\ query.pc = "done" /\ query.tool = "get_recent_deployments" /\ ~query.thrown

\* C27: for calls made one after another, once a proposal has returned
\* with its launch done and its record not saved, a proposal whose cooldown
\* check runs within the cooldown interval is rejected for cooldown.
C27_UnsavedLaunchKeepsCooldown ==
    [][\A c \in Calls :
          (/\ GateStep(c)
           /\ now - StartTime < MIN_DEPLOYMENT_INTERVAL
           /\ \E d \in Calls : /\ d # c /\ call[d].pc = "done" /\ call[d].launched
                                /\ call[d].error = "exception")
              => call'[c].error = "too_soon"]_vars

\* C28: the in-memory set deployedTweetIds holds only tweet ids of
\* deployments that are in the store, and the step in which a refresh
\* replaces the set removes no id whose deployment is in the store.
C28_NoPhantomIds ==
    [][/\ \A id \in deployedTweetIds' : StoreHolds(id)'
       /\ \A c \in Calls : (call[c].pc = "refresh_apply" /\ call'[c].pc # "refresh_apply") =>
             \A id \in deployedTweetIds : StoreHolds(id)' => id \in deployedTweetIds']_vars

\* C29: a duplicate check returns exists=true only if a deployment in the
\* store has a tweet URL with exactly the status id of the proposal.
C29_NoFalsePositive ==
    [][\A c \in Calls :
          (DedupReturns(c) /\ call'[c].error = "duplicate") => StoreHolds(TweetIdOf(c))]_vars

====
